---- MODULE Spec2Model ----
(***************************************************************************)
(* A model of the two example programs of spongecake:                      *)
(*                                                                         *)
(*   examples/concurrency_example.py  a thread pool that runs one          *)
(*       check_flight_price per weekend of a month, each in a desktop of   *)
(*       its own, and an aggregation loop in main that collects the        *)
(*       futures as they complete;                                         *)
(*   examples/linkedin_example.py     one interactive desktop.action run   *)
(*       with four handlers that share the slot result[0].                 *)
(*                                                                         *)
(* Text is modelled as a sequence of one-character strings, so that        *)
(* float(), strip() and lower() are computed and not assumed.              *)
(***************************************************************************)
EXTENDS Integers, Sequences, FiniteSets, TLC

(***************************************************************************)
(* Bounds of the model.                                                    *)
(***************************************************************************)
\* the longest weekends list the scheduler is run on under Spec
MaxTasks == 3
\* the largest number of tasks whose ports are allocated under SpecPorts
MaxPortTasks == 50
\* how many times the interactive run may be suspended
MaxRounds == 2
\* the longest weekends list the scheduler is run on under SpecPool
MaxPoolTasks == 6

(***************************************************************************)
(* The state.                                                              *)
(***************************************************************************)
VARIABLES
    portN,              \* the number of tasks whose ports are allocated
    assigned            \* the Desktops constructed for tasks 1..portN so far

portVars == <<portN, assigned>>

VARIABLES
    month,              \* the month number main read
    weekends,           \* the list of weekend numbers main submits
    engine,             \* "any": the desktops may fail; "nominal": they do not
    mainpc,             \* where main is
    submitted,          \* how many of weekends main has submitted
    pc,                 \* where the worker of each weekend is
    desktop,            \* the Desktop each worker constructed
    session,            \* the state of each worker's container
    startCalls,         \* calls of desktop.start() per weekend
    actionCalls,        \* calls of desktop.action() per weekend
    stopCalls,          \* calls of desktop.stop() per weekend
    status,             \* what desktop.action gave each worker
    ret,                \* the value a worker is returning
    future,             \* the future of each weekend
    consumed,           \* the futures the as_completed loop has processed
    results,            \* main's results dict
    cheapest_weekend,   \* main's cheapest_weekend
    report              \* what main printed at the end

schedVars == <<month, weekends, engine, mainpc, submitted, pc, desktop, session,
               startCalls, actionCalls, stopCalls, status, ret, future, consumed,
               results, cheapest_weekend, report>>

VARIABLES
    lpc,                \* where main of linkedin_example is
    lsession,           \* the state of its one container
    astate,             \* the state of the action run
    rounds,             \* how many times the run has been suspended
    result0,            \* the shared slot result[0]
    lastReply,          \* what the operator typed last
    handlerRet,         \* what the handler invoked last returned
    instruction,        \* the text the run was resumed with last
    declined,           \* the handler that ended the run, if one did
    pendingExecuted,    \* whether the gated operation was executed
    completeCalls,      \* calls of complete_handler
    errorCalls,         \* calls of error_handler
    lreport             \* what main printed at the end

linkVars == <<lpc, lsession, astate, rounds, result0, lastReply, handlerRet,
              instruction, declined, pendingExecuted, completeCalls, errorCalls,
              lreport>>

vars == <<portVars, schedVars, linkVars>>

(***************************************************************************)
(* Text.                                                                   *)
(***************************************************************************)
T_189 == <<"1", "8", "9">>
T_231 == <<"2", "3", "1">>
T_timeout == <<"t", "i", "m", "e", "o", "u", "t">>
T_boom == <<"b", "o", "o", "m">>
T_nodocker == <<"n", "o", " ", "d", "o", "c", "k", "e", "r">>
T_ERROR == <<"E", "R", "R", "O", "R", ":", " ">>
T_UNKNOWN == <<"U", "N", "K", "N", "O", "W", "N", ":", " ", "S", "t", "a", "t", "u", "s", " ">>
T_EXCEPTION == <<"E", "X", "C", "E", "P", "T", "I", "O", "N", ":", " ">>

DigitValue(c) ==
    CASE c = "0" -> 0 [] c = "1" -> 1 [] c = "2" -> 2 [] c = "3" -> 3
      [] c = "4" -> 4 [] c = "5" -> 5 [] c = "6" -> 6 [] c = "7" -> 7
      [] c = "8" -> 8 [] c = "9" -> 9 [] OTHER -> -1

IsSpace(c) == c \in {" ", "\t", "\n"}

RECURSIVE LStrip(_)
LStrip(s) ==
    IF s # <<>> /\ IsSpace(Head(s)) THEN LStrip(Tail(s)) ELSE s

RECURSIVE RStrip(_)
RStrip(s) ==
    IF s # <<>> /\ IsSpace(s[Len(s)]) THEN RStrip(SubSeq(s, 1, Len(s) - 1)) ELSE s

\* str.strip()
Strip(s) == RStrip(LStrip(s))

T_exit == <<"e", "x", "i", "t">>
T_quit == <<"q", "u", "i", "t">>
T_ack == <<"a", "c", "k">>

\* one character of str.lower()
LowerChar(c) ==
    CASE c = "A" -> "a"
      [] c = "B" -> "b"
      [] c = "C" -> "c"
      [] c = "D" -> "d"
      [] c = "E" -> "e"
      [] c = "F" -> "f"
      [] c = "G" -> "g"
      [] c = "H" -> "h"
      [] c = "I" -> "i"
      [] c = "J" -> "j"
      [] c = "K" -> "k"
      [] c = "L" -> "l"
      [] c = "M" -> "m"
      [] c = "N" -> "n"
      [] c = "O" -> "o"
      [] c = "P" -> "p"
      [] c = "Q" -> "q"
      [] c = "R" -> "r"
      [] c = "S" -> "s"
      [] c = "T" -> "t"
      [] c = "U" -> "u"
      [] c = "V" -> "v"
      [] c = "W" -> "w"
      [] c = "X" -> "x"
      [] c = "Y" -> "y"
      [] c = "Z" -> "z"
      [] OTHER -> c

\* str.lower()
Lower(s) == [i \in 1..Len(s) |-> LowerChar(s[i])]

RECURSIVE DigitsValue(_, _)
DigitsValue(s, acc) ==
    IF s = <<>> THEN acc ELSE DigitsValue(Tail(s), 10 * acc + DigitValue(Head(s)))

\* float(text) on the texts of this model (no ".", exponent, "_", "inf" or
\* "nan" occurs in them): surrounding white space and one sign are accepted,
\* then one or more digits; anything else raises ValueError (ok = FALSE).
ParseFloat(text) ==
    LET t == Strip(text)
        signed == t # <<>> /\ Head(t) \in {"+", "-"}
        digits == IF signed THEN Tail(t) ELSE t
        valid == digits # <<>> /\ \A i \in 1..Len(digits) : DigitValue(digits[i]) >= 0
    IN  IF valid
        THEN [ok |-> TRUE,
              val |-> IF signed /\ Head(t) = "-"
                      THEN 0 - DigitsValue(digits, 0)
                      ELSE DigitsValue(digits, 0)]
        ELSE [ok |-> FALSE, val |-> 0]

(***************************************************************************)
(* get_nth_weekend_dates(2025, month, n).                                  *)
(***************************************************************************)
\* the number of days of a month of 2025
DaysInMonth(m) ==
    CASE m = 2 -> 28
      [] m \in {4, 6, 9, 11} -> 30
      [] OTHER -> 31

RECURSIVE DaysBefore(_)
DaysBefore(m) == IF m <= 1 THEN 0 ELSE DaysInMonth(m - 1) + DaysBefore(m - 1)

\* date(2025, m, 1).weekday(), Monday = 0; 1 January 2025 is a Wednesday
FirstWeekday(m) == (2 + DaysBefore(m)) % 7

NoDates == [ok |-> FALSE, friday |-> 0, sunday |-> 0]

get_nth_weekend_dates(m, n) ==
    LET offset_to_friday == (4 - FirstWeekday(m)) % 7
        nth_friday == 1 + offset_to_friday + 7 * (n - 1)
        nth_sunday == nth_friday + 2
    IN  IF nth_friday > DaysInMonth(m) \/ nth_sunday > DaysInMonth(m)
        THEN NoDates
        ELSE [ok |-> TRUE, friday |-> nth_friday, sunday |-> nth_sunday]

(***************************************************************************)
(* The ports check_flight_price gives the desktop of a weekend.            *)
(***************************************************************************)
\* vnc_port with the weekend number as the offset
vnc_port_one_based(weekend_number) == 5900 + weekend_number

vnc_port(weekend_number) == 5900 + weekend_number - 1
api_port(weekend_number) == 8000 + weekend_number - 1
\* marionette_port as a copy of the socat line with its base left unchanged
marionette_port_copied(weekend_number) == 2828 + weekend_number - 1

marionette_port(weekend_number) == 3838 + weekend_number - 1
socat_port(weekend_number) == 2828 + weekend_number - 1

DesktopOf(weekend_number) ==
    [name |-> weekend_number,
     vnc |-> vnc_port(weekend_number),
     api |-> api_port(weekend_number),
     marionette |-> marionette_port(weekend_number),
     socat |-> socat_port(weekend_number)]

\* the next task of 1..portN constructs its Desktop
Construct ==
    /\ Len(assigned) < portN
    /\ assigned' = Append(assigned, DesktopOf(Len(assigned) + 1))
    /\ UNCHANGED <<portN, schedVars, linkVars>>

\* no ports are being allocated outside the scheduler
IdlePorts ==
    /\ portN = 0
    /\ assigned = <<>>

(***************************************************************************)
(* concurrency_example.py: the scheduler.                                  *)
(***************************************************************************)
MAX_WORKERS == 5

\* the months main is given: February 2025 holds three whole
\* weekends, March four and August five
Months == {2, 3, 8}

\* the largest weekend number of a weekends list
MaxWeekend == 5

T_NEEDS_INPUT == <<"A", "g", "e", "n", "t", "S", "t", "a", "t", "u", "s", ".", "N", "E", "E", "D", "S", "_", "I", "N", "P", "U", "T">>

None == [kind |-> "none", text |-> <<>>]
Text(t) == [kind |-> "text", text |-> t]

\* float('inf') and the finite floats
Inf == [inf |-> TRUE, val |-> 0]
Float(n) == [inf |-> FALSE, val |-> n]
\* a < b, for a finite a
FloatLess(a, b) == b.inf \/ a < b.val

Range(s) == {s[i] : i \in 1..Len(s)}

\* the lists lo..hi of weekend numbers within 1..MaxWeekend, of at most n
\* entries, and the empty list
WeekendLists(n) ==
    {<<>>} \cup
    UNION {{[i \in 1..(hi - lo + 1) |-> lo + i - 1] :
                hi \in {h \in lo..MaxWeekend : h - lo + 1 <= n}} :
           lo \in 1..MaxWeekend}

Tasks == Range(weekends)

NoDesktop == [name |-> 0, vnc |-> 0, api |-> 0, marionette |-> 0, socat |-> 0]
NoReport == [printed |-> FALSE, lines |-> <<>>, best |-> Inf]

InitMain(lists, engines) ==
    /\ month \in Months
    /\ weekends \in lists
    /\ engine \in engines
    /\ mainpc = "setup"
    /\ submitted = 0
    /\ pc = [w \in Tasks |-> "unsubmitted"]
    /\ desktop = [w \in Tasks |-> NoDesktop]
    /\ session = [w \in Tasks |-> "NOT_STARTED"]
    /\ startCalls = [w \in Tasks |-> 0]
    /\ actionCalls = [w \in Tasks |-> 0]
    /\ stopCalls = [w \in Tasks |-> 0]
    /\ status = [w \in Tasks |-> "none"]
    /\ ret = [w \in Tasks |-> None]
    /\ future = [w \in Tasks |-> [state |-> "none", value |-> None]]
    /\ consumed = {}
    /\ results = <<>>
    /\ cheapest_weekend = Inf
    /\ report = NoReport


\* what desktop.start() may do
StartOutcomes == IF engine = "nominal" THEN {"ok"} ELSE {"ok", "START_FAILURE"}

\* what desktop.action(..., ignore_safety_and_input=True) may do: return a
\* status with its data, or raise
ActionOutcomes ==
    IF engine = "nominal"
    THEN {[status |-> "COMPLETE", text |-> T_189]}
    ELSE {[status |-> "COMPLETE", text |-> T_189],
          [status |-> "COMPLETE", text |-> T_231],
          [status |-> "ERROR", text |-> T_timeout],
          [status |-> "NEEDS_INPUT", text |-> T_NEEDS_INPUT],
          [status |-> "raise", text |-> T_boom]}

\* max_workers as the number of tasks, whatever the configured maximum
PoolSize_unbounded == Len(weekends)

\* max_workers of the ThreadPoolExecutor
PoolSize == IF MAX_WORKERS < Len(weekends) THEN MAX_WORKERS ELSE Len(weekends)

\* the workers that are inside check_flight_price
Running == {w \in Tasks : pc[w] \in {"start", "action", "early_stop", "finally"}}

\* the sessions that are started and not stopped
Active == {w \in Tasks : session[w] = "RUNNING"}

\* with ThreadPoolExecutor(max_workers=min(5, len(weekends))): raises
\* ValueError when max_workers is 0
SetupPool ==
    /\ mainpc = "setup"
    /\ mainpc' = IF PoolSize <= 0 THEN "crashed" ELSE "submit"
    /\ UNCHANGED <<month, weekends, engine, submitted, pc, desktop, session,
                   startCalls, actionCalls, stopCalls, status, ret, future,
                   consumed, results, cheapest_weekend, report,
                   portVars, linkVars>>

\* executor.submit(check_flight_price, ..., weekend) for the next weekend of
\* the list; after the last one main enters the as_completed loop
Submit ==
    /\ mainpc = "submit"
    /\ submitted < Len(weekends)
    /\ LET w == weekends[submitted + 1] IN
        /\ pc' = [pc EXCEPT ![w] = "queued"]
        /\ future' = [future EXCEPT ![w] = [state |-> "pending", value |-> None]]
    /\ submitted' = submitted + 1
    /\ mainpc' = IF submitted + 1 = Len(weekends) THEN "loop" ELSE "submit"
    /\ UNCHANGED <<month, weekends, engine, desktop, session, startCalls,
                   actionCalls, stopCalls, status, ret, consumed, results,
                   cheapest_weekend, report,
                   portVars, linkVars>>

\* the work item at the head of the executor's queue
QueueHead(w) ==
    \E i \in 1..Len(weekends) :
        /\ weekends[i] = w
        /\ pc[w] = "queued"
        /\ \A j \in 1..(i - 1) : pc[weekends[j]] # "queued"

\* a pool thread takes the next work item and runs check_flight_price up to
\* desktop.start(): the Desktop is constructed with its ports
Pickup(w) ==
    /\ QueueHead(w)
    /\ Cardinality(Running) < PoolSize
    /\ pc' = [pc EXCEPT ![w] = "start"]
    /\ future' = [future EXCEPT ![w].state = "running"]
    /\ desktop' = [desktop EXCEPT ![w] = DesktopOf(w)]
    /\ UNCHANGED <<month, weekends, engine, mainpc, submitted, session,
                   startCalls, actionCalls, stopCalls, status, ret, consumed,
                   results, cheapest_weekend, report,
                   portVars, linkVars>>

\* desktop.start() tried a second time when the first attempt fails
Start_retry(w) ==
    /\ pc[w] = "start"
    /\ startCalls' = [startCalls EXCEPT ![w] = @ + 1]
    /\ \E o \in StartOutcomes :
        IF o = "ok"
        THEN /\ session' = [session EXCEPT ![w] = "RUNNING"]
             /\ pc' = [pc EXCEPT ![w] =
                    IF get_nth_weekend_dates(month, w).ok THEN "action" ELSE "early_stop"]
             /\ UNCHANGED future
        ELSE IF startCalls[w] = 0
        THEN UNCHANGED <<session, pc, future>>
        ELSE /\ session' = [session EXCEPT ![w] = "START_FAILED"]
             /\ pc' = [pc EXCEPT ![w] = "finished"]
             /\ future' = [future EXCEPT ![w] = [state |-> "raised", value |-> Text(T_nodocker)]]
    /\ UNCHANGED <<month, weekends, engine, mainpc, submitted, desktop,
                   actionCalls, stopCalls, status, ret, consumed, results,
                   cheapest_weekend, report, portVars, linkVars>>

\* desktop.start(), then get_nth_weekend_dates and the branch on its result.
\* A failing start raises out of check_flight_price: the future holds the
\* exception.
Start(w) ==
    /\ pc[w] = "start"
    /\ startCalls' = [startCalls EXCEPT ![w] = @ + 1]
    /\ \E o \in StartOutcomes :
        IF o = "ok"
        THEN /\ session' = [session EXCEPT ![w] = "RUNNING"]
             /\ pc' = [pc EXCEPT ![w] =
                    IF get_nth_weekend_dates(month, w).ok THEN "action" ELSE "early_stop"]
             /\ UNCHANGED future
        ELSE /\ session' = [session EXCEPT ![w] = "START_FAILED"]
             /\ pc' = [pc EXCEPT ![w] = "finished"]
             /\ future' = [future EXCEPT ![w] = [state |-> "raised", value |-> Text(T_nodocker)]]
    /\ UNCHANGED <<month, weekends, engine, mainpc, submitted, desktop,
                   actionCalls, stopCalls, status, ret, consumed, results,
                   cheapest_weekend, report,
                   portVars, linkVars>>

\* the early return without its desktop.stop()
EarlyStop_forgets(w) ==
    /\ pc[w] = "early_stop"
    /\ ret' = [ret EXCEPT ![w] = None]
    /\ future' = [future EXCEPT ![w] = [state |-> "returned", value |-> None]]
    /\ pc' = [pc EXCEPT ![w] = "finished"]
    /\ UNCHANGED <<month, weekends, engine, mainpc, submitted, desktop, session,
                   startCalls, actionCalls, stopCalls, status, consumed, results,
                   cheapest_weekend, report, portVars, linkVars>>

\* the weekend does not fit in the month: desktop.stop(), return None
EarlyStop(w) ==
    /\ pc[w] = "early_stop"
    /\ stopCalls' = [stopCalls EXCEPT ![w] = @ + 1]
    /\ session' = [session EXCEPT ![w] = "STOPPED"]
    /\ ret' = [ret EXCEPT ![w] = None]
    /\ future' = [future EXCEPT ![w] = [state |-> "returned", value |-> None]]
    /\ pc' = [pc EXCEPT ![w] = "finished"]
    /\ UNCHANGED <<month, weekends, engine, mainpc, submitted, desktop,
                   startCalls, actionCalls, status, consumed, results,
                   cheapest_weekend, report,
                   portVars, linkVars>>

\* check_flight_price with no else branch: any status but ERROR returns the
\* data's text as a result
ReturnValue_no_else(o) ==
    CASE o.status = "ERROR" -> Text(T_ERROR \o o.text)
      [] o.status = "raise" -> Text(T_EXCEPTION \o o.text)
      [] OTHER -> Text(o.text)

\* the value check_flight_price returns for what desktop.action did
ReturnValue(o) ==
    CASE o.status = "COMPLETE" -> Text(o.text)
      [] o.status = "ERROR" -> Text(T_ERROR \o o.text)
      [] o.status = "raise" -> Text(T_EXCEPTION \o o.text)
      [] OTHER -> Text(T_UNKNOWN \o o.text)

\* the try block: desktop.action and the return statement it leads to, or
\* the except clause; the finally clause is still to run
Action(w) ==
    /\ pc[w] = "action"
    /\ actionCalls' = [actionCalls EXCEPT ![w] = @ + 1]
    /\ \E o \in ActionOutcomes :
        /\ status' = [status EXCEPT ![w] = o.status]
        /\ ret' = [ret EXCEPT ![w] = ReturnValue(o)]
    /\ pc' = [pc EXCEPT ![w] = "finally"]
    /\ UNCHANGED <<month, weekends, engine, mainpc, submitted, desktop, session,
                   startCalls, stopCalls, future, consumed, results,
                   cheapest_weekend, report,
                   portVars, linkVars>>

\* desktop.stop() at the end of the try block instead of in a finally
\* clause: the except path returns without stopping
Finally_in_try(w) ==
    /\ pc[w] = "finally"
    /\ stopCalls' = [stopCalls EXCEPT ![w] = IF status[w] = "raise" THEN @ ELSE @ + 1]
    /\ session' = [session EXCEPT ![w] = IF status[w] = "raise" THEN @ ELSE "STOPPED"]
    /\ future' = [future EXCEPT ![w] = [state |-> "returned", value |-> ret[w]]]
    /\ pc' = [pc EXCEPT ![w] = "finished"]
    /\ UNCHANGED <<month, weekends, engine, mainpc, submitted, desktop,
                   startCalls, actionCalls, status, ret, consumed, results,
                   cheapest_weekend, report, portVars, linkVars>>

\* the finally clause: desktop.stop(), then the pending return
Finally(w) ==
    /\ pc[w] = "finally"
    /\ stopCalls' = [stopCalls EXCEPT ![w] = @ + 1]
    /\ session' = [session EXCEPT ![w] = "STOPPED"]
    /\ future' = [future EXCEPT ![w] = [state |-> "returned", value |-> ret[w]]]
    /\ pc' = [pc EXCEPT ![w] = "finished"]
    /\ UNCHANGED <<month, weekends, engine, mainpc, submitted, desktop,
                   startCalls, actionCalls, status, ret, consumed, results,
                   cheapest_weekend, report,
                   portVars, linkVars>>

\* results[weekend_number] = text
Store(w, text) ==
    [x \in DOMAIN results \cup {w} |-> IF x = w THEN text ELSE results[x]]

\* the comparison of the reduction turned round
Reduce_greater(text) ==
    LET price == ParseFloat(text) IN
    IF price.ok /\ (cheapest_weekend.inf \/ price.val > cheapest_weekend.val)
    THEN Float(price.val)
    ELSE cheapest_weekend

\* the reduction keeping the latest price instead of the least
Reduce_last(text) ==
    LET price == ParseFloat(text) IN
    IF price.ok THEN Float(price.val) ELSE cheapest_weekend

\* cheapest_weekend after the inner try of the loop body on a result
Reduce(text) ==
    LET price == ParseFloat(text) IN
    IF price.ok /\ FloatLess(price.val, cheapest_weekend)
    THEN Float(price.val)
    ELSE cheapest_weekend

\* the loop body with an except clause that only prints
Consume_print_only(w) ==
    /\ mainpc = "loop"
    /\ w \notin consumed
    /\ future[w].state \in {"returned", "raised"}
    /\ consumed' = consumed \cup {w}
    /\ IF future[w].state = "raised"
       THEN UNCHANGED <<results, cheapest_weekend>>
       ELSE IF future[w].value # None
            THEN /\ results' = Store(w, future[w].value.text)
                 /\ cheapest_weekend' = Reduce(future[w].value.text)
            ELSE UNCHANGED <<results, cheapest_weekend>>
    /\ UNCHANGED <<month, weekends, engine, mainpc, submitted, pc, desktop,
                   session, startCalls, actionCalls, stopCalls, status, ret,
                   future, report, portVars, linkVars>>

\* the loop body with no try around future.result(): a worker's exception
\* ends main
Consume_no_try(w) ==
    /\ mainpc = "loop"
    /\ w \notin consumed
    /\ future[w].state \in {"returned", "raised"}
    /\ IF future[w].state = "raised"
       THEN /\ mainpc' = "crashed"
            /\ UNCHANGED <<consumed, results, cheapest_weekend>>
       ELSE /\ consumed' = consumed \cup {w}
            /\ UNCHANGED mainpc
            /\ IF future[w].value # None
               THEN /\ results' = Store(w, future[w].value.text)
                    /\ cheapest_weekend' = Reduce(future[w].value.text)
               ELSE UNCHANGED <<results, cheapest_weekend>>
    /\ UNCHANGED <<month, weekends, engine, submitted, pc, desktop,
                   session, startCalls, actionCalls, stopCalls, status, ret,
                   future, report, portVars, linkVars>>

\* one pass of the as_completed loop, on a future that is done
Consume(w) ==
    /\ mainpc = "loop"
    /\ w \notin consumed
    /\ future[w].state \in {"returned", "raised"}
    /\ consumed' = consumed \cup {w}
    /\ IF future[w].state = "raised"
       THEN /\ results' = Store(w, T_ERROR \o future[w].value.text)
            /\ UNCHANGED cheapest_weekend
       ELSE IF future[w].value # None
            THEN /\ results' = Store(w, future[w].value.text)
                 /\ cheapest_weekend' = Reduce(future[w].value.text)
            ELSE UNCHANGED <<results, cheapest_weekend>>
    /\ UNCHANGED <<month, weekends, engine, mainpc, submitted, pc, desktop,
                   session, startCalls, actionCalls, stopCalls, status, ret,
                   future, report,
                   portVars, linkVars>>

\* every future has been yielded: the loop and the with block end
LeavePool ==
    /\ mainpc = "loop"
    /\ consumed = Tasks
    /\ mainpc' = "summary"
    /\ UNCHANGED <<month, weekends, engine, submitted, pc, desktop, session,
                   startCalls, actionCalls, stopCalls, status, ret, future,
                   consumed, results, cheapest_weekend, report,
                   portVars, linkVars>>

\* the summary main prints: one line per entry of results, then the
\* "Cheapest weekend: $..." line with cheapest_weekend as it is
Summary == [printed |-> TRUE, lines |-> results, best |-> cheapest_weekend]

PrintSummary ==
    /\ mainpc = "summary"
    /\ report' = Summary
    /\ mainpc' = "done"
    /\ UNCHANGED <<month, weekends, engine, submitted, pc, desktop, session,
                   startCalls, actionCalls, stopCalls, status, ret, future,
                   consumed, results, cheapest_weekend,
                   portVars, linkVars>>

Next ==
    \/ SetupPool
    \/ Submit
    \/ \E w \in Tasks : Pickup(w)
    \/ \E w \in Tasks : Start(w)
    \/ \E w \in Tasks : EarlyStop(w)
    \/ \E w \in Tasks : Action(w)
    \/ \E w \in Tasks : Finally(w)
    \/ \E w \in Tasks : Consume(w)
    \/ LeavePool
    \/ PrintSummary


(***************************************************************************)
(* linkedin_example.py: one interactive run.                               *)
(***************************************************************************)
\* what the operator may type at a prompt
Replies ==
    {<<"e", "x", "i", "t">>,
     <<" ", "Q", "u", "i", "t", " ">>,
     <<"E", "X", "I", "T">>,
     <<"a", "c", "k">>,
     <<" ", "A", "C", "K">>,
     <<"y", "e", "s">>,
     <<>>,
     <<"e", "x", "i", "t", " ", "n", "o", "w">>}

T_json == <<"{", "}">>

\* the data objects a COMPLETE status may carry: with and without output_text
Datas ==
    {[kind |-> "data", has_output_text |-> TRUE, output_text |-> T_json],
     [kind |-> "data", has_output_text |-> FALSE, output_text |-> <<>>]}

NoData == [kind |-> "none", has_output_text |-> FALSE, output_text |-> <<>>]

\* the scheduler is not being run
IdleMain ==
    /\ month = 1
    /\ weekends = <<>>
    /\ engine = "nominal"
    /\ mainpc = "idle"
    /\ submitted = 0
    /\ pc = <<>>
    /\ desktop = <<>>
    /\ session = <<>>
    /\ startCalls = <<>>
    /\ actionCalls = <<>>
    /\ stopCalls = <<>>
    /\ status = <<>>
    /\ ret = <<>>
    /\ future = <<>>
    /\ consumed = {}
    /\ results = <<>>
    /\ cheapest_weekend = Inf
    /\ report = NoReport

\* result = [None], before main
InitRun ==
    /\ lpc = "start"
    /\ lsession = "NOT_STARTED"
    /\ astate = "idle"
    /\ rounds = 0
    /\ result0 = NoData
    /\ lastReply = <<>>
    /\ handlerRet = "none"
    /\ instruction = <<>>
    /\ declined = "none"
    /\ pendingExecuted = FALSE
    /\ completeCalls = 0
    /\ errorCalls = 0
    /\ lreport = "none"

\* the interactive run is not being made
IdleRun ==
    /\ lpc = "idle"
    /\ lsession = "NOT_STARTED"
    /\ astate = "idle"
    /\ rounds = 0
    /\ result0 = NoData
    /\ lastReply = <<>>
    /\ handlerRet = "none"
    /\ instruction = <<>>
    /\ declined = "none"
    /\ pendingExecuted = FALSE
    /\ completeCalls = 0
    /\ errorCalls = 0
    /\ lreport = "none"

InitLinkedin == IdlePorts /\ IdleMain /\ InitRun

Init == InitMain(WeekendLists(MaxTasks), {"any"}) /\ IdlePorts /\ IdleRun

Spec == Init /\ [][Next]_vars

\* needs_input_handler comparing the reply without lower()
needs_input_handler_cased(reply) ==
    LET user_says == Strip(reply) IN
    IF user_says \in {T_exit, T_quit} THEN None ELSE Text(user_says)

\* needs_input_handler: what it returns for what the operator typed
needs_input_handler(reply) ==
    LET user_says == Strip(reply) IN
    IF Lower(user_says) \in {T_exit, T_quit} THEN None ELSE Text(user_says)

\* needs_input_handler leaving what the operator typed in result[0] on exit
InputSlot_keeps_reply(reply, slot) ==
    LET user_says == Strip(reply) IN
    IF Lower(user_says) \in {T_exit, T_quit}
    THEN [kind |-> "data", has_output_text |-> FALSE, output_text |-> user_says]
    ELSE slot

\* needs_input_handler: result[0] after it
InputSlot(reply, slot) ==
    LET user_says == Strip(reply) IN
    IF Lower(user_says) \in {T_exit, T_quit} THEN NoData ELSE slot

\* needs_safety_check_handler proceeding unless told to exit
needs_safety_check_handler_permissive(reply) ==
    LET ack == Lower(Strip(reply)) IN
    IF ack \in {T_exit, T_quit} THEN FALSE ELSE TRUE

\* needs_safety_check_handler: what it returns for what the operator typed
needs_safety_check_handler(reply) ==
    LET ack == Lower(Strip(reply)) IN
    IF ack \in {T_exit, T_quit} THEN FALSE
    ELSE IF ack = T_ack THEN TRUE
    ELSE FALSE

\* needs_safety_check_handler: result[0] after it
SafetySlot(reply, slot) ==
    LET ack == Lower(Strip(reply)) IN
    IF ack \in {T_exit, T_quit} THEN NoData ELSE slot

\* complete_handler: result[0] after it
complete_handler(data) == data

\* error_handler keeping the message in result[0]
error_handler_keeps(error_message) ==
    [kind |-> "data", has_output_text |-> FALSE, output_text |-> error_message]

\* error_handler: result[0] after it
error_handler(error_message) == NoData

\* desktop.start(), outside any try: a failure ends main with the exception.
\* The attempt to open the VNC viewer that follows changes nothing.
LStart ==
    /\ lpc = "start"
    /\ \E o \in {"ok", "START_FAILURE"} :
        IF o = "ok"
        THEN lsession' = "RUNNING" /\ lpc' = "try"
        ELSE lsession' = "START_FAILED" /\ lpc' = "crashed"
    /\ UNCHANGED <<astate, rounds, result0, lastReply, handlerRet, instruction,
                   declined, pendingExecuted, completeCalls, errorCalls, lreport,
                   portVars, schedVars>>

\* auto_mode is False: desktop.action is called with the four handlers
LCallAction ==
    /\ lpc = "try"
    /\ lpc' = "in_action"
    /\ astate' = "RUNNING"
    /\ UNCHANGED <<lsession, rounds, result0, lastReply, handlerRet, instruction,
                   declined, pendingExecuted, completeCalls, errorCalls, lreport,
                   portVars, schedVars>>

\* the run is suspended for input or for a safety check
Suspend ==
    /\ lpc = "in_action"
    /\ astate = "RUNNING"
    /\ rounds < MaxRounds
    /\ rounds' = rounds + 1
    /\ \E s \in {"NEEDS_INPUT", "NEEDS_SAFETY_CHECK"} :
        /\ astate' = s
        /\ pendingExecuted' = IF s = "NEEDS_SAFETY_CHECK" THEN FALSE ELSE pendingExecuted
    /\ UNCHANGED <<lpc, lsession, result0, lastReply, handlerRet, instruction,
                   declined, completeCalls, errorCalls, lreport,
                   portVars, schedVars>>

\* NEEDS_INPUT: the input handler is invoked; its value resumes the run, the
\* abort sentinel cancels it
OnInput ==
    /\ lpc = "in_action"
    /\ astate = "NEEDS_INPUT"
    /\ \E reply \in Replies :
        LET r == needs_input_handler(reply) IN
        /\ lastReply' = reply
        /\ result0' = InputSlot(reply, result0)
        /\ handlerRet' = IF r = None THEN "None" ELSE "text"
        /\ instruction' = IF r = None THEN instruction ELSE r.text
        /\ astate' = IF r = None THEN "CANCELLED" ELSE "RUNNING"
        /\ declined' = IF r = None THEN "input" ELSE declined
    /\ UNCHANGED <<lpc, lsession, rounds, pendingExecuted, completeCalls,
                   errorCalls, lreport, portVars, schedVars>>

\* NEEDS_SAFETY_CHECK: the safety handler is invoked; True executes the gated
\* operation and resumes, False cancels the run without executing it
OnSafetyCheck ==
    /\ lpc = "in_action"
    /\ astate = "NEEDS_SAFETY_CHECK"
    /\ \E reply \in Replies :
        LET proceed == needs_safety_check_handler(reply) IN
        /\ lastReply' = reply
        /\ result0' = SafetySlot(reply, result0)
        /\ handlerRet' = IF proceed THEN "True" ELSE "False"
        /\ pendingExecuted' = proceed
        /\ astate' = IF proceed THEN "RUNNING" ELSE "CANCELLED"
        /\ declined' = IF proceed THEN declined ELSE "safety"
    /\ UNCHANGED <<lpc, lsession, rounds, instruction, completeCalls, errorCalls,
                   lreport, portVars, schedVars>>

\* COMPLETE: the complete handler is invoked with the data
OnComplete ==
    /\ lpc = "in_action"
    /\ astate = "RUNNING"
    /\ \E data \in Datas : result0' = complete_handler(data)
    /\ completeCalls' = completeCalls + 1
    /\ astate' = "COMPLETE"
    /\ UNCHANGED <<lpc, lsession, rounds, lastReply, handlerRet, instruction,
                   declined, pendingExecuted, errorCalls, lreport,
                   portVars, schedVars>>

\* ERROR: the error handler is invoked with the message
OnError ==
    /\ lpc = "in_action"
    /\ astate = "RUNNING"
    /\ result0' = error_handler(T_timeout)
    /\ errorCalls' = errorCalls + 1
    /\ astate' = "ERROR"
    /\ UNCHANGED <<lpc, lsession, rounds, lastReply, handlerRet, instruction,
                   declined, pendingExecuted, completeCalls, lreport,
                   portVars, schedVars>>

\* a status outside the recognized set ends the run with no handler; a
\* fault is raised out of desktop.action
OnOther ==
    /\ lpc = "in_action"
    /\ astate = "RUNNING"
    /\ astate' \in {"UNKNOWN", "RAISED"}
    /\ UNCHANGED <<lpc, lsession, rounds, result0, lastReply, handlerRet,
                   instruction, declined, pendingExecuted, completeCalls,
                   errorCalls, lreport, portVars, schedVars>>

\* desktop.action returns to main, or raises into main's except clause
LActionEnds ==
    /\ lpc = "in_action"
    /\ astate \in {"COMPLETE", "ERROR", "UNKNOWN", "CANCELLED", "RAISED"}
    /\ lpc' = IF astate = "RAISED" THEN "except" ELSE "final"
    /\ UNCHANGED <<lsession, astate, rounds, result0, lastReply, handlerRet,
                   instruction, declined, pendingExecuted, completeCalls,
                   errorCalls, lreport, portVars, schedVars>>

\* the final report with the test of final_result turned round
FinalReport_inverted(final_result) ==
    IF final_result # NoData THEN "interrupted" ELSE "done"

\* "Show final results": what main prints for final_result = result[0]
FinalReport(final_result) ==
    IF final_result = NoData THEN "interrupted"
    ELSE IF final_result.has_output_text THEN "result"
    ELSE "done"

LShowFinal ==
    /\ lpc = "final"
    /\ lreport' = FinalReport(result0)
    /\ lpc' = "cleanup"
    /\ UNCHANGED <<lsession, astate, rounds, result0, lastReply, handlerRet,
                   instruction, declined, pendingExecuted, completeCalls,
                   errorCalls, portVars, schedVars>>

\* except Exception: "An error occurred", "Exiting gracefully..."
LExcept ==
    /\ lpc = "except"
    /\ lreport' = "exception"
    /\ lpc' = "cleanup"
    /\ UNCHANGED <<lsession, astate, rounds, result0, lastReply, handlerRet,
                   instruction, declined, pendingExecuted, completeCalls,
                   errorCalls, portVars, schedVars>>

\* the end of main: desktop.stop() is commented out, the container is left
LExit ==
    /\ lpc = "cleanup"
    /\ lpc' = "exited"
    /\ UNCHANGED <<lsession, astate, rounds, result0, lastReply, handlerRet,
                   instruction, declined, pendingExecuted, completeCalls,
                   errorCalls, lreport, portVars, schedVars>>

NextLinkedin ==
    \/ LStart
    \/ LCallAction
    \/ Suspend
    \/ OnInput
    \/ OnSafetyCheck
    \/ OnComplete
    \/ OnError
    \/ OnOther
    \/ LActionEnds
    \/ LShowFinal
    \/ LExcept
    \/ LExit

SpecLinkedin == InitLinkedin /\ [][NextLinkedin]_vars

(***************************************************************************)
(* The other specifications.                                               *)
(***************************************************************************)
\* the scheduler on the lists 1..n, n up to MaxPoolTasks, with desktops that
\* do not fail
PrefixLists(n) == {[i \in 1..k |-> i] : k \in 0..n}

InitPool == InitMain(PrefixLists(MaxPoolTasks), {"nominal"}) /\ IdlePorts /\ IdleRun

SpecPool == InitPool /\ [][Next]_vars

\* the Desktops of tasks 1..portN are constructed one after the other
InitPorts ==
    /\ portN \in 1..MaxPortTasks
    /\ assigned = <<>>
    /\ IdleMain
    /\ IdleRun

NextPorts == Construct

SpecPorts == InitPorts /\ [][NextPorts]_vars

(***************************************************************************)
(* The claims.                                                             *)
(***************************************************************************)
Finished == mainpc \in {"summary", "done"}

StartSucceeded(w) == session[w] \in {"RUNNING", "STOPPED"}

\* C1: for every worker run whose desktop.start() succeeded, desktop.stop()
\* is called exactly once, however the run ends (COMPLETE, ERROR, another
\* status, an exception in desktop.action, the early return); it is never
\* called twice.
C1_StopExactlyOnce ==
    \A w \in Tasks :
        /\ stopCalls[w] <= 1
        /\ (pc[w] = "finished" /\ StartSucceeded(w)) => stopCalls[w] = 1

\* three runs that ended in three ways, an exception in desktop.action, the
\* early return and a COMPLETE, each stopped once
C1_Witness ==
    \E a, b, c \in Tasks :
        /\ pc[a] = "finished" /\ status[a] = "raise" /\ stopCalls[a] = 1
        /\ pc[b] = "finished" /\ future[b].state = "returned"
        /\ future[b].value = None /\ stopCalls[b] = 1
        /\ pc[c] = "finished" /\ status[c] = "COMPLETE" /\ stopCalls[c] = 1

EarlyReturned(w) ==
    StartSucceeded(w) /\ ~get_nth_weekend_dates(month, w).ok

PortKinds == {"vnc", "api", "marionette", "socat"}

\* C3: the ports of the Desktops of tasks 1..N, N up to 50, are pairwise
\* distinct, within one kind and across kinds and tasks.
C3_PortsDistinct ==
    \A i, j \in 1..Len(assigned) : \A k, l \in PortKinds :
        (i # j \/ k # l) => assigned[i][k] # assigned[j][l]

\* all fifty tasks have their ports
C3_Witness == portN = 50 /\ Len(assigned) = 50

\* C4: the sessions started and not stopped, and the workers inside
\* check_flight_price, are never more than min(5, number of tasks).
C4_AtMostW ==
    LET W == IF Len(weekends) < 5 THEN Len(weekends) ELSE 5 IN
    /\ Cardinality(Active) <= W
    /\ Cardinality(Running) <= W

\* five sessions are active while a sixth task waits in the queue
C4_Witness ==
    /\ Len(weekends) = 6
    /\ Cardinality(Active) = 5
    /\ \E w \in Tasks : pc[w] = "queued"

\* C5: a failing desktop.start() and an exception in desktop.action each end
\* as an error entry of that task in results; main never ends on a worker's
\* fault (it ends early only on an empty list); and when the scheduler has
\* finished every task has run to its outcome and been processed.
C5_FaultsBecomeEntries ==
    /\ \A w \in consumed :
        /\ session[w] = "START_FAILED" =>
              (w \in DOMAIN results /\ results[w] = T_ERROR \o T_nodocker)
        /\ status[w] = "raise" =>
              (w \in DOMAIN results /\ results[w] = T_EXCEPTION \o T_boom)
    /\ mainpc = "crashed" => weekends = <<>>
    /\ Finished => \A w \in Tasks : pc[w] = "finished" /\ w \in consumed

\* the scheduler has finished with a task whose start failed, a task whose
\* action raised and a sibling that completed with its price
C5_Witness ==
    /\ mainpc = "done"
    /\ \E a, b, c \in Tasks :
        /\ session[a] = "START_FAILED" /\ a \in DOMAIN results
        /\ status[b] = "raise" /\ b \in DOMAIN results
        /\ status[c] = "COMPLETE" /\ c \in DOMAIN results /\ results[c] = T_189

\* the numbers among the entries of results
NumericResults ==
    {ParseFloat(results[w]).val : w \in {x \in DOMAIN results : ParseFloat(results[x]).ok}}

\* the outcomes 1: "231", 2: "ERROR: timeout", 3: "189"
ExampleOutcomes ==
    /\ weekends = <<1, 2, 3>>
    /\ future[1] = [state |-> "returned", value |-> Text(T_231)]
    /\ future[2] = [state |-> "returned", value |-> Text(T_ERROR \o T_timeout)]
    /\ future[3] = [state |-> "returned", value |-> Text(T_189)]

\* C6: after the loop the best value is the least of the outcomes that parse
\* as numbers, and every outcome that is not None is kept in results under
\* its task number; for 1: "231", 2: "ERROR: timeout", 3: "189" the best
\* value is 189 and the three entries are kept.
C6_BestIsMinimum ==
    Finished =>
        /\ NumericResults # {} =>
              /\ ~cheapest_weekend.inf
              /\ cheapest_weekend.val \in NumericResults
              /\ \A n \in NumericResults : cheapest_weekend.val <= n
        /\ \A w \in Tasks :
              (future[w].state = "returned" /\ future[w].value # None) =>
                  (w \in DOMAIN results /\ results[w] = future[w].value.text)
        /\ ExampleOutcomes =>
              /\ cheapest_weekend = Float(189)
              /\ DOMAIN results = {1, 2, 3}
              /\ results[1] = T_231
              /\ results[2] = T_ERROR \o T_timeout
              /\ results[3] = T_189

\* the example's outcomes, after the loop
C6_Witness == mainpc = "done" /\ ExampleOutcomes /\ cheapest_weekend = Float(189)

\* C7 as stated: when no outcome parses as a number, the best value main
\* reports is not a number, the sentinel float('inf') included.
C7_NoValidResultDistinct ==
    (mainpc = "done" /\ NumericResults = {}) =>
        ~(report.best.inf \in BOOLEAN /\ report.best.val \in Int)

\* C8: once needs_safety_check_handler has returned False the gated operation
\* is not executed, the run is cancelled, complete_handler is not invoked and
\* the final report is not that of a completed result.
C8_DeclineAborts ==
    declined = "safety" =>
        /\ handlerRet = "False"
        /\ ~pendingExecuted
        /\ astate = "CANCELLED"
        /\ completeCalls = 0
        /\ lreport \notin {"result", "done"}
        /\ lpc \in {"cleanup", "exited"} => lreport = "interrupted"

\* main has ended after the operator answered a safety check with a text
\* that is neither ack nor exit nor quit
C8_Witness ==
    /\ lpc = "exited"
    /\ declined = "safety"
    /\ lastReply = <<"y", "e", "s">>
    /\ lreport = "interrupted"

UnknownEntry(w) ==
    /\ w \in DOMAIN results
    /\ Len(results[w]) >= Len(T_UNKNOWN)
    /\ SubSeq(results[w], 1, Len(T_UNKNOWN)) = T_UNKNOWN

\* C9: when the loop processes a worker whose desktop.action returned a
\* status other than COMPLETE and ERROR, results gets an UNKNOWN entry for
\* it and the best value does not change.
C9_UnknownIsFailure ==
    [][\A w \in Tasks :
          (status[w] \notin {"none", "COMPLETE", "ERROR", "raise"}
              /\ w \notin consumed /\ w \in consumed')
          => (UnknownEntry(w)' /\ cheapest_weekend' = cheapest_weekend)]_vars

\* such a worker has been processed after a price was found
C9_Witness ==
    \E w \in consumed :
        /\ status[w] = "NEEDS_INPUT"
        /\ UnknownEntry(w)
        /\ cheapest_weekend = Float(189)

\* the replies of Replies that are exit or quit once trimmed and lower-cased
AbortReplies == {<<"e", "x", "i", "t">>, <<" ", "Q", "u", "i", "t", " ">>, <<"E", "X", "I", "T">>}

\* a reply with the white space around it removed
Trimmed(reply) ==
    CASE reply = <<" ", "A", "C", "K">> -> <<"A", "C", "K">>
      [] reply = <<" ", "Q", "u", "i", "t", " ">> -> <<"Q", "u", "i", "t">>
      [] OTHER -> reply

\* C10: needs_input_handler returns None exactly for the replies that are
\* exit or quit once trimmed and lower-cased, and the trimmed reply
\* otherwise, which the run resumes with; after an abort the run is
\* cancelled and the final report is the interrupted one.
C10_InputAbort ==
    /\ handlerRet = "None" => lastReply \in AbortReplies
    /\ handlerRet = "text" =>
          (lastReply \notin AbortReplies /\ instruction = Trimmed(lastReply))
    /\ declined = "input" =>
          /\ astate = "CANCELLED"
          /\ lreport \notin {"result", "done"}
          /\ lpc \in {"cleanup", "exited"} => lreport = "interrupted"

\* main has ended after the operator answered " Quit " to a question
C10_Witness ==
    /\ lpc = "exited"
    /\ declined = "input"
    /\ lastReply = <<" ", "Q", "u", "i", "t", " ">>
    /\ lreport = "interrupted"

\* the outcome of the worker of w has been reported: its future is done
Reported(w) == future[w].state \in {"returned", "raised"}

\* C11 as stated: when a unit of work reports its outcome, every
\* desktop.start() it called, a failed one included, has been matched by a
\* desktop.stop(); in check_flight_price and in main of linkedin_example.
C11_StopMatchesStart ==
    /\ \A w \in Tasks : Reported(w) => stopCalls[w] = startCalls[w]
    /\ (lpc = "exited" /\ lsession # "NOT_STARTED") => lsession = "STOPPED"

\* C12: whenever a task's future is done, its entry is in results or the
\* loop has processed it, the session its worker started is stopped.
C12_StoppedBeforeReported ==
    \A w \in Tasks :
        (Reported(w) \/ w \in consumed \/ w \in DOMAIN results) =>
            /\ session[w] # "RUNNING"
            /\ StartSucceeded(w) => (session[w] = "STOPPED" /\ stopCalls[w] = 1)

\* the entries of a completed task and of a task that caught an exception
\* are in results, and a task that returned early has been processed, all
\* three sessions stopped
C12_Witness ==
    \E a, b, c \in consumed :
        /\ status[a] = "COMPLETE" /\ a \in DOMAIN results /\ session[a] = "STOPPED"
        /\ status[b] = "raise" /\ b \in DOMAIN results /\ session[b] = "STOPPED"
        /\ EarlyReturned(c) /\ session[c] = "STOPPED"

\* C13: the ports of task i are 5900, 8000, 3838 and 2828 plus i - 1, the
\* same offset for the four kinds; the first task gets the bases.
C13_BasePlusIndex ==
    \A i \in 1..Len(assigned) :
        /\ assigned[i].vnc = 5900 + (i - 1)
        /\ assigned[i].api = 8000 + (i - 1)
        /\ assigned[i].marionette = 3838 + (i - 1)
        /\ assigned[i].socat = 2828 + (i - 1)
        /\ i = 1 => (/\ assigned[i].vnc = 5900
                     /\ assigned[i].api = 8000
                     /\ assigned[i].marionette = 3838
                     /\ assigned[i].socat = 2828)

\* the first and the fifth task have their ports
C13_Witness ==
    /\ Len(assigned) >= 5
    /\ assigned[1] = [name |-> 1, vnc |-> 5900, api |-> 8000,
                      marionette |-> 3838, socat |-> 2828]
    /\ assigned[5].vnc = 5904

\* C14: no task has its session started or desktop.action invoked more than
\* once, and an entry of results, once written, is neither overwritten nor
\* removed.
C14_NoRetry ==
    /\ [](\A w \in Tasks : startCalls[w] <= 1 /\ actionCalls[w] <= 1)
    /\ [][\A w \in DOMAIN results :
              w \in DOMAIN results' /\ results'[w] = results[w]]_vars

\* the scheduler has finished with the entry of a failed start, started once,
\* and the entry of a price, its action invoked once
C14_Witness ==
    /\ mainpc = "done"
    /\ \E a, b \in Tasks :
        /\ session[a] = "START_FAILED" /\ startCalls[a] = 1
        /\ a \in DOMAIN results /\ results[a] = T_ERROR \o T_nodocker
        /\ status[b] = "COMPLETE" /\ actionCalls[b] = 1
        /\ b \in DOMAIN results /\ results[b] = T_231

\* main of linkedin_example has printed its final report
Reported0 == lpc \in {"cleanup", "exited"} /\ lreport # "exception"

\* what a run that ended in ERROR leaves: result[0] and the final report
ErrorOutcome ==
    [result |-> error_handler(T_timeout), report |-> FinalReport(error_handler(T_timeout))]

C16_EmptyListIsNoOp ==
    weekends = <<>> =>
        /\ mainpc # "crashed"
        /\ mainpc \notin {"setup", "submit"} => results = <<>>

\* the entries of results that the futures of the set S of tasks give,
\* whatever the order they were taken in
ExpectedResults(S) ==
    [w \in {x \in S : future[x].state = "raised" \/ future[x].value # None} |->
        IF future[w].state = "raised"
        THEN T_ERROR \o future[w].value.text
        ELSE future[w].value.text]

\* the prices among the values returned by the tasks of S
PricesOf(S) ==
    {ParseFloat(future[w].value.text).val :
        w \in {x \in S : /\ future[x].state = "returned"
                          /\ future[x].value # None
                          /\ ParseFloat(future[x].value.text).ok}}

ExpectedBest(S) ==
    IF PricesOf(S) = {} THEN Inf
    ELSE Float(CHOOSE p \in PricesOf(S) : \A q \in PricesOf(S) : p <= q)

\* C17: results and the best value depend only on which futures have been
\* taken and on their outcomes, never on the order they completed or were
\* taken in; after the loop they are those of all the tasks.
C17_OrderIndependent ==
    /\ mainpc \in {"loop", "summary", "done"} =>
          /\ results = ExpectedResults(consumed)
          /\ cheapest_weekend = ExpectedBest(consumed)
    /\ Finished =>
          /\ results = ExpectedResults(Tasks)
          /\ cheapest_weekend = ExpectedBest(Tasks)

\* a later weekend has been taken before an earlier one that is done too,
\* the earlier one holding the greater price
C17_Witness ==
    /\ mainpc = "loop"
    /\ \E a, b \in Tasks :
        /\ a < b
        /\ b \in consumed /\ a \notin consumed
        /\ future[a] = [state |-> "returned", value |-> Text(T_231)]
        /\ b \in DOMAIN results /\ results[b] = T_189
        /\ cheapest_weekend = Float(189)

\* C18: result[0] is not None only after complete_handler; once the run has
\* ended with error_handler, an input abort or a declined safety check
\* (a reply that is neither ack nor exit or quit included), result[0] is None
\* and the final report is the interrupted-or-error one.
C18_SlotSetOnlyByComplete ==
    /\ result0 # NoData => (completeCalls >= 1 /\ astate = "COMPLETE")
    /\ (errorCalls >= 1 \/ declined # "none") =>
          /\ result0 = NoData
          /\ completeCalls = 0
          /\ lreport \in {"none", "interrupted"}
          /\ lpc \in {"cleanup", "exited"} => lreport = "interrupted"

\* after an answered input request, a safety check was declined with "yes"
\* and main has ended
C18_Witness ==
    /\ lpc = "exited"
    /\ rounds = 2
    /\ declined = "safety"
    /\ lastReply = <<"y", "e", "s">>
    /\ result0 = NoData
    /\ lreport = "interrupted"

\* the replies that trim and lower-case to "ack"
AckReplies == {<<"a", "c", "k">>, <<" ", "A", "C", "K">>}

\* C19: needs_safety_check_handler returns True only for a reply that, trimmed
\* and lower-cased, is exactly "ack", and False for every other reply; the
\* gated operation is executed only on True.
C19_DenyByDefault ==
    /\ handlerRet = "True" =>
          /\ lastReply \in AckReplies
          /\ astate # "NEEDS_SAFETY_CHECK" => pendingExecuted
    /\ handlerRet = "False" =>
          (lastReply \in Replies \ AckReplies /\ ~pendingExecuted
              /\ astate = "CANCELLED")
    /\ \A r \in Replies : needs_safety_check_handler(r) = (r \in AckReplies)

\* the safety check was declined by an empty reply
C19_Witness ==
    /\ handlerRet = "False"
    /\ lastReply = <<>>
    /\ declined = "safety"
    /\ ~pendingExecuted

\* the scheduler with its steps taken fairly: the pool's threads and main
\* keep running while any of them can take a step
SpecFair == Init /\ [][Next]_vars /\ WF_vars(Next)

\* every submitted worker has finished and no started session is left running
AllWorkersDone ==
    \A w \in Tasks : pc[w] = "finished" /\ session[w] # "RUNNING"

C20_NonEmptyTerminates ==
    /\ (weekends # <<>>) => <>(mainpc = "done" /\ AllWorkersDone)
    /\ [](Finished => AllWorkersDone)

====
